---- MODULE Spec2Model ----
(***************************************************************************)
(* FractionalNorm wake combination                                         *)
(* (floris/simulation/wake_combination/fractional_norm.py).                *)
(*                                                                         *)
(* One FractionalNorm instance is modelled: its construction from a        *)
(* parameter dictionary, the two property setters and function(), the      *)
(* elementwise combination  (u_wake^p + u_field^p)^(1/p).                  *)
(*                                                                         *)
(* Numbers.  An exponent is a positive rational <<num, den>> in lowest     *)
(* terms.  Flow fields are one-dimensional arrays of non-negative          *)
(* integers that are perfect squares, so that x^(n/d) with d in {1, 2} is  *)
(* an integer and the sum under the root is computed exactly.  The outer   *)
(* root S^(d/n) is kept as the exact real number rad^(1/idx) in canonical  *)
(* form.  Floating-point rounding is not modelled.                         *)
(***************************************************************************)
EXTENDS Integers, Sequences, FiniteSets, TLC

(* ------------------------------ bounds --------------------------------- *)

\* Flow fields have 1..MaxLen elements.
MaxLen == 2

\* Turbine indices are 0..MaxTurb; per-turbine collections have at most
\* MaxTurb entries, so that index MaxTurb is missing from every one of them.
MaxTurb == 2

(* --------------------------- Python values ----------------------------- *)

\* Exponents that occur: 1 (linear superposition), the tuned 1.5, and 2.
ExpVals == {<<1, 1>>, <<3, 2>>, <<2, 1>>}

\* A key a mapping does not hold.
Absent == <<0, 0>>

\* A Python value: its type and its numeric content (one rational for a
\* scalar, one per entry for a collection; Absent marks a key a dict lacks).
PyFloat(q) == [t |-> "float", v |-> <<q>>]
PyInt(n) == [t |-> "int", v |-> <<(<<n, 1>>)>>]
PyStr == [t |-> "str", v |-> <<>>]
PyNone == [t |-> "NoneType", v |-> <<>>]
PyList(s) == [t |-> "list", v |-> s]
PyDict(s) == [t |-> "dict", v |-> s]
NdArray(s) == [t |-> "ndarray", v |-> s]

\* No value: a key a configuration does not supply, an attribute not yet set,
\* an argument the call does not have.
Missing == [t |-> "missing", v |-> <<>>]

SeqsUpTo(S, n) == UNION {[1..k -> S] : k \in 1..n}

\* norm_order values a configuration supplies: scalars and per-turbine
\* collections (list, dict keyed by turbine index, numpy array).
NormOrderValues ==
    {PyFloat(<<3, 2>>), PyFloat(<<1, 1>>), PyInt(2)}
    \cup {PyList(s) : s \in SeqsUpTo(ExpVals, MaxTurb)}
    \cup {NdArray(s) : s \in SeqsUpTo(ExpVals, MaxTurb)}
    \cup {PyDict(s) : s \in {d \in [1..MaxTurb -> ExpVals \cup {Absent}] :
                                \E i \in 1..MaxTurb : d[i] # Absent}}

\* wake_weight values a caller writes: floats, and values of other types.
WakeWeightValues ==
    {PyFloat(<<1, 1>>), PyFloat(<<2, 1>>), PyInt(1), PyStr, PyNone,
     PyList(<<(<<1, 1>>)>>)}

(* ---------------------------- flow fields ------------------------------ *)

\* Flow field elements: zero and two perfect squares.
FieldVals == {0, 1, 4}

Fields == SeqsUpTo(FieldVals, MaxLen)

\* turbnum: <<>> is None (the default), <<i>> is turbine index i.
TurbNone == <<>>
TurbNums == {TurbNone} \cup {<<i>> : i \in 0..MaxTurb}

(* ---------------------------- arithmetic -------------------------------- *)

RECURSIVE IntPow(_, _)
IntPow(x, n) == IF n = 0 THEN 1 ELSE x * IntPow(x, n - 1)

\* The exact d-th root of a perfect d-th power.
IRoot(x, d) == IF d = 1 THEN x ELSE CHOOSE r \in 0..x : IntPow(r, d) = x

\* x ** q for a rational q = n/d and x a perfect d-th power.
Pow(x, q) == IntPow(IRoot(x, q[2]), q[1])

\* The real number rad^(1/idx).
Real(rad, idx) == [rad |-> rad, idx |-> idx]

\* s ** (1 / q) = (s^d)^(1/n) for q = n/d, in canonical form: an integer
\* when s^d is a perfect n-th power (n is 1 or a prime for every exponent
\* of ExpVals, so nothing in between occurs).
RootOf(s, q) ==
    LET a == IntPow(s, q[2])
        n == q[1]
        top == IF q[2] <= n THEN s ELSE a
        roots == {r \in 0..top : IntPow(r, n) = a}
    IN  IF n = 1 \/ a <= 1 THEN Real(a, 1)
        ELSE IF roots # {} THEN Real(CHOOSE r \in roots : TRUE, 1)
        ELSE Real(a, n)

(* ------------------------- FractionalNorm ------------------------------ *)

\* default_parameters = {"norm_order": 1.5, "wake_weight": 1.0}
DefaultParameters ==
    [norm_order |-> PyFloat(<<3, 2>>), wake_weight |-> PyFloat(<<1, 1>>)]

Keys == {"norm_order", "wake_weight"}

\* A parameter dictionary: given = FALSE is None; a key not supplied is
\* Missing; extra says whether it holds a key the variant does not know.
NoConfig == [given |-> FALSE, norm_order |-> Missing, wake_weight |-> Missing,
             extra |-> FALSE]

Configs ==
    {NoConfig}
    \cup [given : {TRUE}, norm_order : NormOrderValues \cup {Missing},
          wake_weight : WakeWeightValues \cup {Missing}, extra : BOOLEAN]

\* The parameter resolver: the caller's value per key, else the default.
GetModelDict(defaults, config) ==
    [k \in Keys |->
        IF config.given /\ config[k] # Missing THEN config[k] ELSE defaults[k]]

\* Python's `value != default` used as an `if` condition, default a float:
\* "True", "False", or "ValueError" when the truth value is ambiguous.  A
\* number compares by value; a str, None, list or dict never equals a float;
\* a numpy array compares elementwise and has a truth value only when it has
\* exactly one element.
IfNotEqual(value, default) ==
    CASE value.t \in {"float", "int"} ->
            IF value.v[1] # default.v[1] THEN "True" ELSE "False"
      [] value.t = "ndarray" ->
            IF Len(value.v) # 1 THEN "ValueError"
            ELSE IF value.v[1] # default.v[1] THEN "True" ELSE "False"
      [] OTHER -> "True"

\* Diagnostics: <<level, parameter>>.
Info(param) == <<"info", param>>
Error(param) == <<"error", param>>

\* norm_order.setter: the value is stored first, then compared with the
\* default; what is stored, what is logged, what is raised.
NormOrderSetter(defaults, value) ==
    LET ne == IfNotEqual(value, defaults.norm_order)
    IN  [stored |-> value,
         log |-> IF ne = "True" THEN <<Info("norm_order")>> ELSE <<>>,
         raised |-> IF ne = "ValueError" THEN "ValueError" ELSE "none"]

\* A faulty wake_weight.setter: it stores before it checks the type, as the
\* norm_order setter stores before it compares.
WakeWeightSetterStoresFirst(defaults, old, value) ==
    IF value.t # "float"
    THEN [stored |-> value, log |-> <<Error("wake_weight")>>,
          raised |-> "ValueError"]
    ELSE [stored |-> value,
          log |-> IF IfNotEqual(value, defaults.wake_weight) = "True"
                  THEN <<Info("wake_weight")>> ELSE <<>>,
          raised |-> "none"]

\* A faulty wake_weight.setter: the comparison with the default is lost and
\* every accepted write is logged.
WakeWeightSetterAlwaysLogs(defaults, old, value) ==
    IF value.t # "float"
    THEN [stored |-> old, log |-> <<Error("wake_weight")>>,
          raised |-> "ValueError"]
    ELSE [stored |-> value, log |-> <<Info("wake_weight")>>,
          raised |-> "none"]

\* wake_weight.setter: the type check comes first and leaves the attribute
\* as it was (old; Missing when it was never set).
WakeWeightSetter(defaults, old, value) ==
    IF value.t # "float"
    THEN [stored |-> old, log |-> <<Error("wake_weight")>>,
          raised |-> "ValueError"]
    ELSE [stored |-> value,
          log |-> IF IfNotEqual(value, defaults.wake_weight) = "True"
                  THEN <<Info("wake_weight")>> ELSE <<>>,
          raised |-> "none"]

\* A faulty __init__: norm_order is taken from the class defaults instead of
\* the resolved model dictionary.
FractionalNormInitFromDefaults(defaults, parameter_dictionary) ==
    LET model_dictionary == GetModelDict(defaults, parameter_dictionary)
        s1 == NormOrderSetter(defaults, defaults.norm_order)
        s2 == WakeWeightSetter(defaults, Missing, model_dictionary.wake_weight)
    IN  [model_string |-> "fracnorm", norm_order |-> s1.stored,
         wake_weight |-> s2.stored, log |-> s1.log \o s2.log,
         raised |-> s2.raised]

\* __init__: the instance it leaves behind, what it logged and raised.  An
\* exception in the first assignment skips the second.
FractionalNormInit(defaults, parameter_dictionary) ==
    LET model_dictionary == GetModelDict(defaults, parameter_dictionary)
        s1 == NormOrderSetter(defaults, model_dictionary.norm_order)
        s2 == WakeWeightSetter(defaults, Missing, model_dictionary.wake_weight)
    IN  IF s1.raised # "none"
        THEN [model_string |-> "fracnorm", norm_order |-> s1.stored,
              wake_weight |-> Missing, log |-> s1.log, raised |-> s1.raised]
        ELSE [model_string |-> "fracnorm", norm_order |-> s1.stored,
              wake_weight |-> s2.stored, log |-> s1.log \o s2.log,
              raised |-> s2.raised]

\* self.norm_order[turbnum]: a scalar exponent, a row of exponents (a numpy
\* array indexed by None gains a leading axis of length 1), or an exception.
Subscript(obj, turbnum) ==
    LET fail(e) == [raised |-> e, kind |-> "none", v |-> <<>>]
        item(q) == [raised |-> "none", kind |-> "scalar", v |-> <<q>>]
        n == Len(obj.v)
    IN  CASE obj.t \in {"float", "int"} -> fail("TypeError")
          [] obj.t = "list" ->
                IF turbnum = TurbNone THEN fail("TypeError")
                ELSE IF turbnum[1] < n THEN item(obj.v[turbnum[1] + 1])
                ELSE fail("IndexError")
          [] obj.t = "dict" ->
                IF turbnum = TurbNone THEN fail("KeyError")
                ELSE IF turbnum[1] < n /\ obj.v[turbnum[1] + 1] # Absent
                     THEN item(obj.v[turbnum[1] + 1])
                ELSE fail("KeyError")
          [] obj.t = "ndarray" ->
                IF turbnum = TurbNone
                THEN [raised |-> "none", kind |-> "row", v |-> obj.v]
                ELSE IF turbnum[1] < n THEN item(obj.v[turbnum[1] + 1])
                ELSE fail("IndexError")
          [] OTHER -> fail("TypeError")

\* A faulty element: the power is missing on u_field.
ElemFieldUnraised(wake, field, p) == RootOf(Pow(wake, p) + field, p)

\* A faulty element: u_wake is written for both terms.
ElemWakeTwice(wake, field, p) == RootOf(Pow(wake, p) + Pow(wake, p), p)

\* One element of (u_wake**norm_order + u_field**norm_order)**(1 / norm_order).
Elem(wake, field, p) == RootOf(Pow(wake, p) + Pow(field, p), p)

\* A numpy array: its shape and its elements in order.
Array(shape, data) == [shape |-> shape, data |-> data]
NoArray == Array(<<0>>, <<>>)

\* The return expression for fields of equal length and the exponent looked
\* up: elementwise for a scalar exponent; broadcast against a row of
\* exponents of shape (1, n), which fails unless the lengths agree or one
\* of them is 1 and otherwise yields shape (1, max).
Formula(u_field, u_wake, p) ==
    LET l == Len(u_field)
        n == Len(p.v)
        m == IF l > n THEN l ELSE n
        at(s, j) == IF Len(s) = 1 THEN s[1] ELSE s[j]
    IN  IF p.kind = "scalar"
        THEN [raised |-> "none",
              ret |-> Array(<<l>>,
                        [j \in 1..l |-> Elem(u_wake[j], u_field[j], p.v[1])])]
        ELSE IF l # n /\ l # 1 /\ n # 1
        THEN [raised |-> "ValueError", ret |-> NoArray]
        ELSE [raised |-> "none",
              ret |-> Array(<<1, m>>,
                        [j \in 1..m |->
                            Elem(at(u_wake, j), at(u_field, j), at(p.v, j))])]

\* A faulty function(): the exponent looked up is assigned back to
\* self.norm_order instead of a local name.
FunctionRebinds(obj, u_field, u_wake, turbnum) ==
    LET p == Subscript(obj, turbnum)
    IN  IF p.raised # "none"
        THEN [raised |-> p.raised, ret |-> NoArray, norm_order |-> obj,
              u_field |-> u_field, u_wake |-> u_wake]
        ELSE Formula(u_field, u_wake, p)
             @@ [norm_order |-> IF p.kind = "scalar" THEN PyFloat(p.v[1])
                                ELSE NdArray(p.v),
                 u_field |-> u_field, u_wake |-> u_wake]

\* function(u_field, u_wake, turbnum) on an instance whose norm_order is
\* obj: the exception raised or the array returned, and the attribute and
\* the two argument arrays as the call leaves them.
Function(obj, u_field, u_wake, turbnum) ==
    LET p == Subscript(obj, turbnum)
    IN  (IF p.raised # "none"
         THEN [raised |-> p.raised, ret |-> NoArray]
         ELSE Formula(u_field, u_wake, p))
        @@ [norm_order |-> obj, u_field |-> u_field, u_wake |-> u_wake]

(* ------------------------------ state ---------------------------------- *)

VARIABLES
    pc,                  \* "none": no instance yet; "constructed"; "failed":
                         \* __init__ raised, the caller holds no instance
    model_string,        \* self.model_string
    _norm_order,         \* self._norm_order (Missing: not set)
    _wake_weight,        \* self._wake_weight (Missing: not set)
    default_parameters,  \* FractionalNorm.default_parameters
    op,                  \* the call that has just ended ("none": the caller
                         \* is between calls)
    args,                \* the arguments it was called with
    log,                 \* what it sent to self.logger
    raised,              \* the exception it raised, or "none"
    ret,                 \* the array function() returned (NoArray: none)
    u_field,             \* the caller's base field array after the call
    u_wake,              \* the caller's wake field array after the call
    recording,           \* whether memo is kept (history, fixed by Init)
    memo                 \* history: the first function() call since
                         \* norm_order was last assigned, its outcome, the
                         \* wake_weight of that moment, and whether
                         \* function() has been called again since

vars == <<pc, model_string, _norm_order, _wake_weight, default_parameters,
          op, args, log, raised, ret, u_field, u_wake, recording, memo>>

NoArgs == [dict |-> NoConfig, value |-> Missing, u_field |-> <<>>,
           u_wake |-> <<>>, turbnum |-> TurbNone]

NoMemo == [args |-> NoArgs, raised |-> "none", ret |-> NoArray,
           wake_weight |-> Missing, later |-> FALSE]

\* The fields of the calls made while memo is kept.
ProbeFields == {f \in Fields : Len(f) = 1 /\ f[1] \in {1, 4}}

\* Between calls nothing of the last call is left.
Idle ==
    /\ op = "none"
    /\ args = NoArgs
    /\ log = <<>>
    /\ raised = "none"
    /\ ret = NoArray
    /\ u_field = <<>>
    /\ u_wake = <<>>

InitCommon ==
    /\ pc = "none"
    /\ model_string = ""
    /\ _norm_order = Missing
    /\ _wake_weight = Missing
    /\ default_parameters = DefaultParameters
    /\ Idle
    /\ memo = NoMemo

Init == InitCommon /\ recording = FALSE

InitFrame == InitCommon /\ recording = TRUE

(* ----------------------------- operations ------------------------------ *)

\* FractionalNorm(parameter_dictionary)
Construct ==
    /\ pc = "none"
    /\ \E parameter_dictionary \in Configs :
       \E r \in {FractionalNormInit(default_parameters, parameter_dictionary)} :
           /\ args' = [NoArgs EXCEPT !.dict = parameter_dictionary]
           /\ model_string' = r.model_string
           /\ _norm_order' = r.norm_order
           /\ _wake_weight' = r.wake_weight
           /\ log' = r.log
           /\ raised' = r.raised
           /\ pc' = IF r.raised = "none" THEN "constructed" ELSE "failed"
    /\ op' = "init"
    /\ UNCHANGED <<default_parameters, ret, u_field, u_wake, recording, memo>>

\* instance.norm_order = value
set_norm_order ==
    /\ pc = "constructed"
    /\ op = "none"
    /\ \E value \in NormOrderValues :
       \E r \in {NormOrderSetter(default_parameters, value)} :
           /\ args' = [NoArgs EXCEPT !.value = value]
           /\ _norm_order' = r.stored
           /\ log' = r.log
           /\ raised' = r.raised
    /\ op' = "set_norm_order"
    /\ memo' = NoMemo
    /\ UNCHANGED <<pc, model_string, _wake_weight, default_parameters, ret,
                   u_field, u_wake, recording>>

\* instance.wake_weight = value
set_wake_weight ==
    /\ pc = "constructed"
    /\ op = "none"
    /\ \E value \in WakeWeightValues :
       \E r \in {WakeWeightSetter(default_parameters, _wake_weight, value)} :
           /\ args' = [NoArgs EXCEPT !.value = value]
           /\ _wake_weight' = r.stored
           /\ log' = r.log
           /\ raised' = r.raised
    /\ op' = "set_wake_weight"
    /\ UNCHANGED <<pc, model_string, _norm_order, default_parameters, ret,
                   u_field, u_wake, recording, memo>>

\* instance.function(field, wake, turbnum), the two fields of equal shape
\* (while memo is kept, fields of ProbeFields only)
function ==
    /\ pc = "constructed"
    /\ op = "none"
    /\ \E field \in IF recording THEN ProbeFields ELSE Fields :
       \E wake \in IF recording THEN ProbeFields
                   ELSE [DOMAIN field -> FieldVals] :
       \E turbnum \in TurbNums :
       \E r \in {Function(_norm_order, field, wake, turbnum)},
          a \in {[NoArgs EXCEPT !.u_field = field, !.u_wake = wake,
                                !.turbnum = turbnum]} :
           /\ _norm_order' = r.norm_order
           /\ u_field' = r.u_field
           /\ u_wake' = r.u_wake
           /\ raised' = r.raised
           /\ ret' = r.ret
           /\ args' = a
           /\ memo' = IF ~recording THEN memo
                      ELSE IF memo = NoMemo
                      THEN [args |-> a, raised |-> r.raised, ret |-> r.ret,
                            wake_weight |-> _wake_weight, later |-> FALSE]
                      ELSE [memo EXCEPT !.later = TRUE]
    /\ op' = "function"
    /\ UNCHANGED <<pc, model_string, _wake_weight, default_parameters, log,
                   recording>>

\* The caller goes on after a call: the simulation loop that owns the
\* instance takes the outcome and, later, calls again.
Return ==
    /\ pc = "constructed"
    /\ op # "none"
    /\ op' = "none"
    /\ args' = NoArgs
    /\ log' = <<>>
    /\ raised' = "none"
    /\ ret' = NoArray
    /\ u_field' = <<>>
    /\ u_wake' = <<>>
    /\ UNCHANGED <<pc, model_string, _norm_order, _wake_weight,
                   default_parameters, recording, memo>>

Next ==
    \/ Construct
    \/ set_norm_order
    \/ set_wake_weight
    \/ function
    \/ Return

Spec == Init /\ [][Next]_vars

SpecFrame == InitFrame /\ [][Next]_vars

(* ------------------------------ claims --------------------------------- *)

\* The parameter dictionary __init__ was called with supplies key k.
Supplied(k) == args.dict.given /\ args.dict[k] # Missing

\* What the caller configured for k, the documented default otherwise.
Configured(k) == IF Supplied(k) THEN args.dict[k] ELSE DefaultParameters[k]

IsScalar(value) == value.t \in {"float", "int"}

IsCollection(value) == value.t \in {"list", "dict", "ndarray"}

\* The per-turbine collection holds an entry for turbine index i.
HasEntry(value, i) == i < Len(value.v) /\ value.v[i + 1] # Absent

\* The value is not the tuned default d: a number with another value, an
\* array with an entry of another value, or a list or mapping.
Deviates(value, d) ==
    IF IsScalar(value) THEN value.v[1] # d.v[1]
    ELSE IF value.t = "ndarray" THEN \E i \in 1..Len(value.v) : value.v[i] # d.v[1]
    ELSE TRUE

Advisory(param, value) ==
    IF Deviates(value, DefaultParameters[param]) THEN <<Info(param)>> ELSE <<>>

\* (w^p + f^p)^(1/p), element by element, for fields of one shape.
Norm(f, w, q) ==
    Array(<<Len(f)>>,
          [j \in 1..Len(f) |->
              RootOf(IntPow(IRoot(w[j], q[2]), q[1])
                     + IntPow(IRoot(f[j], q[2]), q[1]), q)])

\* C1: with a scalar norm_order, function() with a turbine index succeeds
\* and returns (u_wake^p + u_field^p)^(1/p) elementwise, p that scalar.
C1_ScalarNormOrderCombines ==
    (op = "function" /\ IsScalar(_norm_order) /\ args.turbnum # TurbNone)
        => /\ raised = "none"
           /\ ret = Norm(args.u_field, args.u_wake, _norm_order.v[1])

\* C2: a write of wake_weight with a value that is not a float raises the
\* configuration type error and stores nothing: a setter call leaves
\* _wake_weight as it was, a construction ends without an instance and
\* without a stored wake_weight.
C2_WakeWeightTypeRejected ==
    [][/\ (op' = "set_wake_weight" /\ args'.value.t # "float")
            => /\ raised' = "ValueError"
               /\ _wake_weight' = _wake_weight
               /\ Error("wake_weight") \in {log'[i] : i \in 1..Len(log')}
       /\ (op' = "init" /\ args'.dict.given
             /\ args'.dict.wake_weight # Missing
             /\ args'.dict.wake_weight.t # "float")
            => /\ raised' = "ValueError"
               /\ pc' = "failed"
               /\ _wake_weight' = Missing]_vars

C2_Witness ==
    /\ op = "set_wake_weight"
    /\ args.value = PyStr
    /\ raised = "ValueError"
    /\ _wake_weight = PyFloat(<<2, 1>>)

\* C3: a construction whose configuration supplies norm_order (any scalar or
\* per-turbine collection) and whose wake_weight is a float completes,
\* stores the supplied norm_order and raises nothing.
C3_NormOrderNeverAborts ==
    (op = "init" /\ Supplied("norm_order")
       /\ Configured("wake_weight").t = "float")
        => /\ pc = "constructed"
           /\ raised = "none"
           /\ _norm_order = args.dict.norm_order

C6_OmittedIndexCombines ==
    (op = "function" /\ args.turbnum = TurbNone)
        => /\ raised = "none"
           /\ ret.shape = <<Len(args.u_field)>>

\* C7: with a per-turbine norm_order collection that lacks an entry for
\* some turbine index, construction succeeds, and function() for a missing
\* index raises a lookup error and returns nothing.
C7_MissingEntryFailsAtCallTime ==
    /\ (op = "init" /\ Supplied("norm_order")
          /\ IsCollection(args.dict.norm_order)
          /\ (\E i \in 0..MaxTurb : ~HasEntry(args.dict.norm_order, i))
          /\ Configured("wake_weight").t = "float")
        => pc = "constructed"
    /\ (op = "function" /\ IsCollection(_norm_order)
          /\ args.turbnum # TurbNone
          /\ ~HasEntry(_norm_order, args.turbnum[1]))
        => /\ raised \in {"IndexError", "KeyError"}
           /\ ret = NoArray

\* C7, the call-time part alone: function() for a missing index raises a
\* lookup error, returns nothing and leaves the instance as it was, and
\* function() for an index the collection holds succeeds, the failed calls
\* before it notwithstanding.
C7_LookupFailureAtCallTime ==
    [][(op' = "function" /\ IsCollection(_norm_order)
          /\ args'.turbnum # TurbNone)
        => /\ _norm_order' = _norm_order
           /\ _wake_weight' = _wake_weight
           /\ IF HasEntry(_norm_order, args'.turbnum[1])
              THEN raised' = "none" /\ ret' # NoArray
              ELSE raised' \in {"IndexError", "KeyError"} /\ ret' = NoArray]_vars

\* C8: function() is commutative in its two fields: whenever a call returns,
\* the call with the two fields swapped, the turbine index the same, returns
\* the same array.
C8_Commutative ==
    (op = "function" /\ raised = "none")
        => \E swapped \in {Function(_norm_order, args.u_wake, args.u_field,
                                    args.turbnum)} :
               swapped.raised = "none" /\ swapped.ret = ret

C8_Witness ==
    /\ op = "function"
    /\ raised = "none"
    /\ _norm_order = PyList(<<(<<3, 2>>), (<<2, 1>>)>>)
    /\ args.turbnum = <<1>>
    /\ args.u_field = <<4, 0>>
    /\ args.u_wake = <<1, 4>>
    /\ ret = Array(<<2>>, <<Real(17, 2), Real(4, 1)>>)

C10_FunctionIsPure ==
    /\ [][op' = "function"
            => /\ _norm_order' = _norm_order
               /\ _wake_weight' = _wake_weight
               /\ model_string' = model_string
               /\ default_parameters' = default_parameters
               /\ u_field' = args'.u_field
               /\ u_wake' = args'.u_wake]_vars
    /\ []((op = "function" /\ args = memo.args)
            => (raised = memo.raised /\ ret = memo.ret))

C10_Witness ==
    /\ op = "function"
    /\ memo.later
    /\ args = memo.args
    /\ raised = "none"
    /\ ret # NoArray
    /\ _wake_weight # memo.wake_weight

====
